---- MODULE Spec2Model ----
(***************************************************************************)
(* A model of the Hindley-Milner type checker of src/type_checker/type_.rs *)
(* (types and kinds, substitutions, unification, matching, the constraint  *)
(* solver, the inference walk and get_type_of).                            *)
(*                                                                         *)
(* Types are tuples tagged by the name of their enum variant:              *)
(*   <<"NoKind">>, <<"ArrowKind">>, <<"Constructor", name, kind>>,         *)
(*   <<"Variable", name, kind>>, <<"TApply", fun, input>>,                 *)
(*   <<"Scheme", variables, ty>> with variables a sequence of VarNames,    *)
(* a VarName is <<name, kind>>, a Substitution and a TypeEnv are functions *)
(* from names (strings) to types, a TypeContext is a record.               *)
(***************************************************************************)
EXTENDS Integers, Sequences, FiniteSets, TLC

VARIABLES
    op,          \* which entry point this run exercises
    pc,          \* position of the run inside that entry point
    hash_order,  \* iteration order of the hash sets of this run
    in_left,     \* first input (a type, or the expression of get_type_of)
    in_right,    \* second input (a type or a substitution)
    context,     \* the TypeContext of the run
    solution,    \* the substitution solve_constraints returned to get_type_of
    outcome      \* the TypeResult computed so far

vars == <<op, pc, hash_order, in_left, in_right, context, solution, outcome>>

-----------------------------------------------------------------------------
(* Type constructors *)

NoKind == <<"NoKind">>

ArrowKind == <<"ArrowKind">>

Constructor(name, kind) == <<"Constructor", name, kind>>

Variable(name, kind) == <<"Variable", name, kind>>

TApply(fun, input) == <<"TApply", fun, input>>

Scheme(variables, ty) == <<"Scheme", variables, ty>>

VarName(name, kind) == <<name, kind>>

Tag(ty) == ty[1]

star == Constructor("*", NoKind)

from_string(name) == Variable(name, NoKind)

to_scheme(ty, variables) == Scheme(variables, ty)

create_lambda(from, to) == TApply(TApply(ArrowKind, from), to)

constant(name) == Constructor(name, star)

number == constant("Number")

string == constant("String")

boolean == constant("Boolean")

is_scheme(ty) == Tag(ty) = "Scheme"

-----------------------------------------------------------------------------
(* Results: Ok(value) and Err(error), each carrying the context after the  *)
(* call, since every method takes the context by mutable reference.        *)

Ok(ctx, value) == [ok |-> TRUE, val |-> value, ctx |-> ctx]

Err(ctx, error) == [ok |-> FALSE, err |-> error, ctx |-> ctx]

\* Bind(value, LAMBDA x : e) is e with x standing for value: a let of the
\* source.
Bind(value, Body(_)) == Body(value)

\* Try(result, LAMBDA x : e) is the ? of the source: an Err is returned as
\* it is, an Ok goes on into e.
Try(result, Body(_)) == IF result.ok THEN Body(result) ELSE result

Range(f) == {f[k] : k \in DOMAIN f}

RECURSIVE SetToSeq(_)
SetToSeq(S) ==
    IF S = {} THEN <<>>
    ELSE LET x == CHOOSE y \in S : TRUE IN <<x>> \o SetToSeq(S \ {x})

Reverse(s) == [i \in 1..Len(s) |-> s[Len(s) + 1 - i]]

\* The elements of a hash set in the order an iteration yields them: the
\* order is unspecified, the run fixes one of two opposite orders.
IterationOrder(S) == IF hash_order THEN SetToSeq(S) ELSE Reverse(SetToSeq(S))

-----------------------------------------------------------------------------
(* Substitutions *)

EmptySubstitution == <<>>

update(subst, key, ty) == (key :> ty) @@ subst

\* im::HashMap::union keeps the value of self when a key is in both maps.
union(self, other) == self @@ other

RECURSIVE free_variables(_)
free_variables(ty) ==
    CASE Tag(ty) = "Variable" -> {VarName(ty[2], ty[3])}
      [] Tag(ty) = "TApply" -> free_variables(ty[2]) \cup free_variables(ty[3])
      [] Tag(ty) = "Scheme" ->
            LET quantifier_names == {ty[2][i][1] : i \in 1..Len(ty[2])}
            IN {v \in free_variables(ty[3]) : v[1] \notin quantifier_names}
      [] OTHER -> {}

RECURSIVE apply_substitution(_, _)

\* apply_substitution that swaps the two parts of an application.
apply_substitution_swapping(ty, substitution) ==
    CASE Tag(ty) = "Variable" ->
            IF ty[2] \in DOMAIN substitution THEN substitution[ty[2]] ELSE ty
      [] Tag(ty) = "TApply" ->
            TApply(apply_substitution(ty[3], substitution),
                   apply_substitution(ty[2], substitution))
      [] OTHER -> ty

apply_substitution(ty, substitution) ==
    CASE Tag(ty) = "Variable" ->
            IF ty[2] \in DOMAIN substitution THEN substitution[ty[2]] ELSE ty
      [] Tag(ty) = "TApply" ->
            TApply(apply_substitution(ty[2], substitution),
                   apply_substitution(ty[3], substitution))
      [] OTHER -> ty

apply_substitution_vec(types, substitution) ==
    [i \in 1..Len(types) |-> apply_substitution(types[i], substitution)]

apply_substitution_constraints(constraints, substitution) ==
    [i \in 1..Len(constraints) |->
        <<constraints[i][1],
          apply_substitution(constraints[i][2], substitution),
          apply_substitution(constraints[i][3], substitution)>>]

\* Substitution::apply_substitution that leaves every entry as it is.
apply_substitution_subst_unapplied(self, substitution) == self

apply_substitution_subst(self, substitution) ==
    [key \in DOMAIN self |-> apply_substitution(self[key], substitution)]

apply_substitution_env(environment, substitution) ==
    [key \in DOMAIN environment |->
        apply_substitution(environment[key], substitution)]

\* merge_substitutions in which the entries of subst1 win.
merge_substitutions_first_wins(subst1, subst2) ==
    union(subst1, apply_substitution_subst(subst2, subst1))

merge_substitutions(subst1, subst2) ==
    union(apply_substitution_subst(subst2, subst1), subst1)

\* The keys on which the two substitutions disagree.
ConflictingKeys(subst1, subst2) ==
    {key \in DOMAIN subst1 \cap DOMAIN subst2 :
        apply_substitution(from_string(key), subst1)
            # apply_substitution(from_string(key), subst2)}

\* safe_merge_substitution without its check.
safe_merge_substitution_unchecked(ctx, subst1, subst2) ==
    Ok(ctx, union(subst1, subst2))

safe_merge_substitution(ctx, subst1, subst2) ==
    LET conflicts == IterationOrder(ConflictingKeys(subst1, subst2))
    IN IF conflicts # <<>>
       THEN Err(ctx, <<"SubstitutionConflict", conflicts[1],
                       subst1[conflicts[1]], subst2[conflicts[1]]>>)
       ELSE Ok(ctx, union(subst1, subst2))

\* is_recursive that looks only at the type itself, not inside applications.
is_recursive_shallow(ty, variable) ==
    Tag(ty) = "Variable" /\ ty[2] = variable

is_recursive(ty, variable) == \E name \in free_variables(ty) : name[1] = variable

generalize(ty, ctx) ==
    LET quantifiers == {variable \in free_variables(ty) :
                            variable[1] \notin DOMAIN ctx.environment}
    IN to_scheme(ty, IterationOrder(quantifiers))

-----------------------------------------------------------------------------
(* The context *)

\* history is a history variable, not a field of TypeContext: the fresh names
\* handed out, the instantiations of identifiers, the generalizations of let
\* values and the syncs of contexts so far, in order. A clone carries it along and sync hands it
\* back, so it follows the one thread of control through all the contexts.
new_context ==
    [environment |-> ("Type" :> star), constraints |-> <<>>, next_id |-> 0,
     history |-> <<>>]

Record(ctx, event) == [ctx EXCEPT !.history = Append(@, event)]

should_unify(ctx, from, to) ==
    [ctx EXCEPT !.constraints = Append(@, <<"Unify", from, to>>)]

should_match(ctx, from, to) ==
    [ctx EXCEPT !.constraints = Append(@, <<"Match", from, to>>)]

\* format!("t{}", id) of the id get_id hands out, and the counter advanced.
fresh(ctx, kind) ==
    LET name == "t" \o ToString(ctx.next_id)
    IN [ctx |-> Record([ctx EXCEPT !.next_id = @ + 1],
                       <<"fresh", name, ctx.next_id, ctx.next_id + 1>>),
        ty |-> Variable(name, kind)]

RECURSIVE InstantiateVars(_, _, _)
\* The fold of instantiate over the quantifiers: one fresh variable each,
\* collected into a map (a later quantifier of the same name replaces an
\* earlier one).
InstantiateVars(ctx, variables, substitution) ==
    IF variables = <<>> THEN [ctx |-> ctx, subst |-> substitution]
    ELSE Bind(fresh(ctx, Head(variables)[2]), LAMBDA f :
         InstantiateVars(f.ctx, Tail(variables),
                         update(substitution, Head(variables)[1], f.ty)))

\* instantiate that drops the quantifiers and keeps their names.
instantiate_without_fresh(ctx, ty) ==
    [ctx |-> ctx, ty |-> IF is_scheme(ty) THEN ty[3] ELSE ty]

instantiate(ctx, ty) ==
    IF is_scheme(ty)
    THEN Bind(InstantiateVars(ctx, ty[2], EmptySubstitution), LAMBDA r :
         [ctx |-> r.ctx, ty |-> apply_substitution(ty[3], r.subst)])
    ELSE [ctx |-> ctx, ty |-> ty]

-----------------------------------------------------------------------------
(* Kinds, unification and matching. The arms of a CASE are the arms of the *)
(* match of the source, in its order: the first arm that applies is taken.  *)

None == <<"None">>

Some(value) == <<"Some", value>>

RECURSIVE get_kind(_, _)
get_kind(ctx, ty) ==
    CASE is_scheme(ty) ->
            Bind(instantiate(ctx, ty), LAMBDA inst : get_kind(inst.ctx, inst.ty))
      [] Tag(ty) = "Constructor" -> [ctx |-> ctx, ty |-> ty[3]]
      [] Tag(ty) = "Variable" -> [ctx |-> ctx, ty |-> ty[3]]
      [] Tag(ty) = "ArrowKind" ->
            [ctx |-> ctx,
             ty |-> generalize(
                 create_lambda(NoKind, create_lambda(NoKind, NoKind)), ctx)]
      [] Tag(ty) = "TApply" ->
            IF ty[2] = ArrowKind THEN [ctx |-> ctx, ty |-> NoKind]
            ELSE Bind(fresh(ctx, NoKind), LAMBDA k_ret :
                 Bind(get_kind(k_ret.ctx, ty[3]), LAMBDA k_input :
                 Bind(get_kind(k_input.ctx, ty[2]), LAMBDA k_fun :
                 [ctx |-> should_unify(k_fun.ctx, k_fun.ty,
                                       create_lambda(k_input.ty, k_ret.ty)),
                  ty |-> k_ret.ty])))
      [] OTHER -> [ctx |-> ctx, ty |-> NoKind]

\* The pair (k_fun, k_input -> k_ret) of a type application.
constrain_type_application(ctx, func, input) ==
    Bind(fresh(ctx, NoKind), LAMBDA k_ret :
    Bind(get_kind(k_ret.ctx, func), LAMBDA k_fun :
    Bind(get_kind(k_fun.ctx, input), LAMBDA k_input :
    [ctx |-> k_input.ctx,
     left |-> k_fun.ty,
     right |-> create_lambda(k_input.ty, k_ret.ty)])))

RECURSIVE unify(_, _, _)
RECURSIVE unify_many(_, _, _)
RECURSIVE bind_type_variable(_, _, _, _)

bind_type_variable(ctx, var_name, var_kind, ty) ==
    IF Tag(ty) = "Variable" /\ ty[2] = var_name
    THEN IF var_kind = None
         THEN Ok(ctx, update(EmptySubstitution, var_name, ty))
         ELSE unify(ctx, ty[3], var_kind[2])
    ELSE IF is_recursive(ty, var_name)
         THEN Err(ctx, <<"RecursiveType", var_name, ty>>)
         ELSE IF var_kind = None
              THEN Ok(ctx, update(EmptySubstitution, var_name, ty))
              ELSE Bind(get_kind(ctx, ty), LAMBDA k_other :
                   Try(unify(k_other.ctx, k_other.ty, var_kind[2]),
                       LAMBDA subst :
                   Ok(subst.ctx,
                      update(subst.val, var_name,
                             apply_substitution(ty, subst.val)))))

unify(ctx, left, right) ==
    CASE left = right -> Ok(ctx, EmptySubstitution)
      [] left = NoKind -> Ok(ctx, EmptySubstitution)
      [] right = NoKind -> Ok(ctx, EmptySubstitution)
      [] Tag(left) = "Constructor" /\ Tag(right) = "Constructor"
            /\ left[2] = right[2] -> unify(ctx, left[3], right[3])
      [] is_scheme(left) ->
            Bind(instantiate(ctx, left), LAMBDA instantiated :
            unify(instantiated.ctx, instantiated.ty, right))
      [] is_scheme(right) ->
            Bind(instantiate(ctx, right), LAMBDA instantiated :
            unify(instantiated.ctx, instantiated.ty, left))
      [] Tag(left) = "Variable" ->
            bind_type_variable(ctx, left[2], Some(left[3]), right)
      [] Tag(right) = "Variable" ->
            bind_type_variable(ctx, right[2], Some(right[3]), left)
      [] Tag(left) = "TApply" /\ Tag(right) = "TApply" ->
            Bind(constrain_type_application(ctx, left[2], left[3]),
                 LAMBDA constraint_left :
            Bind(constrain_type_application(constraint_left.ctx,
                                            right[2], right[3]),
                 LAMBDA constraint_right :
            unify_many(constraint_right.ctx,
                       <<constraint_left.left, constraint_right.left,
                         left[2], left[3]>>,
                       <<constraint_left.right, constraint_right.right,
                         right[2], right[3]>>)))
      [] OTHER -> Err(ctx, <<"UnificationError", left, right>>)

\* unify_many that stops after the first pair.
unify_many_first_pair_only(ctx, types1, types2) ==
    CASE types1 = <<>> /\ types2 = <<>> -> Ok(ctx, EmptySubstitution)
      [] types1 # <<>> /\ types2 # <<>> ->
            unify(ctx, Head(types1), Head(types2))
      [] OTHER -> Err(ctx, <<"DifferentLengths", types1, types2>>)

unify_many(ctx, types1, types2) ==
    CASE types1 = <<>> /\ types2 = <<>> -> Ok(ctx, EmptySubstitution)
      [] types1 # <<>> /\ types2 # <<>> ->
            Try(unify(ctx, Head(types1), Head(types2)), LAMBDA substitution :
            Bind(apply_substitution_vec(Tail(types1), substitution.val),
                 LAMBDA rest1 :
            Bind(apply_substitution_vec(Tail(types2), substitution.val),
                 LAMBDA rest2 :
            Try(unify_many(substitution.ctx, rest1, rest2),
                LAMBDA other_substitution :
            Ok(other_substitution.ctx,
               merge_substitutions(other_substitution.val,
                                   substitution.val))))))
      [] OTHER -> Err(ctx, <<"DifferentLengths", types1, types2>>)

RECURSIVE match_types(_, _, _)

\* The Apply/Apply case up to its two sub-matches: the substitution of the
\* kinds (subst2) and those of the function parts and of the argument parts.
match_application_parts(ctx, left, right) ==
    Bind(constrain_type_application(ctx, left[2], left[3]),
         LAMBDA constraint_left :
    Bind(constrain_type_application(constraint_left.ctx, right[2], right[3]),
         LAMBDA constraint_right :
    Try(unify_many(constraint_right.ctx,
            <<constraint_left.left, constraint_right.left>>,
            <<constraint_left.right, constraint_right.right>>),
        LAMBDA subst2 :
    Bind(apply_substitution_vec(
             <<left[2], right[2], left[3], right[3]>>, subst2.val),
         LAMBDA parts :
    Try(match_types(subst2.ctx, parts[1], parts[2]), LAMBDA fun_subst :
    Try(match_types(fun_subst.ctx, parts[3], parts[4]), LAMBDA input_subst :
    Ok(input_subst.ctx,
       [subst2 |-> subst2.val, fun_subst |-> fun_subst.val,
        input_subst |-> input_subst.val])))))))

match_types(ctx, left, right) ==
    CASE left = right -> Ok(ctx, EmptySubstitution)
      [] left = NoKind -> Ok(ctx, EmptySubstitution)
      [] right = NoKind -> Ok(ctx, EmptySubstitution)
      [] Tag(left) = "Constructor" /\ Tag(right) = "Constructor"
            /\ left[2] = right[2] -> match_types(ctx, left[3], right[3])
      [] is_scheme(left) ->
            Bind(instantiate(ctx, left), LAMBDA instantiated :
            match_types(instantiated.ctx, instantiated.ty, right))
      [] is_scheme(right) ->
            Bind(instantiate(ctx, right), LAMBDA instantiated :
            match_types(instantiated.ctx, left, instantiated.ty))
      [] Tag(left) = "Variable" ->
            bind_type_variable(ctx, left[2], Some(left[3]), right)
      [] Tag(left) = "TApply" /\ Tag(right) = "TApply" ->
            Try(match_application_parts(ctx, left, right), LAMBDA parts :
            Try(safe_merge_substitution(parts.ctx, parts.val.fun_subst,
                                        parts.val.input_subst),
                LAMBDA merged :
            Ok(merged.ctx,
               merge_substitutions(parts.val.subst2, merged.val))))
      [] Tag(left) = "ArrowKind" /\ Tag(right) = "ArrowKind" ->
            Ok(ctx, EmptySubstitution)
      [] OTHER -> Err(ctx, <<"MatchingError", left, right>>)

-----------------------------------------------------------------------------
(* The constraint solver *)

solve_constraint(ctx, constraint) ==
    IF constraint[1] = "Unify"
    THEN unify(ctx, constraint[2], constraint[3])
    ELSE match_types(ctx, constraint[2], constraint[3])

RECURSIVE solve_constraints_with_subst(_, _, _)
solve_constraints_with_subst(ctx, constraints, substitution) ==
    IF constraints = <<>> THEN Ok(ctx, substitution)
    ELSE Try(solve_constraint(ctx, Head(constraints)), LAMBDA solved :
         Bind(merge_substitutions(solved.val, substitution),
              LAMBDA new_subst :
         Bind(apply_substitution_constraints(Tail(constraints), new_subst),
              LAMBDA rest :
         solve_constraints_with_subst(solved.ctx, rest, new_subst))))

RECURSIVE solve_constraints(_)
solve_constraints(ctx) ==
    Try(solve_constraints_with_subst([ctx EXCEPT !.constraints = <<>>],
                                     ctx.constraints, EmptySubstitution),
        LAMBDA subst :
    IF Len(subst.ctx.constraints) > 0
    THEN Bind([subst.ctx EXCEPT !.constraints =
                  apply_substitution_constraints(@, subst.val)],
              LAMBDA self :
         Try(solve_constraints(self), LAMBDA subst2 :
         Ok(subst2.ctx, merge_substitutions(subst2.val, subst.val))))
    ELSE subst)

-----------------------------------------------------------------------------
(* Inference. An expression is a tuple tagged by its Ast variant:           *)
(*   <<"FloatLiteral">>, <<"StringLiteral">>, <<"Variable", name>>,         *)
(*   <<"Annotation", annotated, annotation>>, <<"If", condition, then,      *)
(*   else>>, <<"FunctionCall", function, argument>>, <<"Lambda", argument,  *)
(*   body>>, <<"Let", name, value, body>>.                                  *)

create_closure(ctx, name, scheme) ==
    [ctx EXCEPT !.environment = (name :> scheme) @@ @]

\* sync that leaves the counter of self as it is.
sync_keeping_counter(self, other) ==
    Record([self EXCEPT !.constraints = @ \o other.constraints,
                        !.history = other.history],
           <<"counter", self.next_id, other.next_id, self.next_id>>)

\* The event holds the counter of self before, that of other, and the
\* counter of self after.
sync(self, other) ==
    Bind(IF other.next_id > self.next_id THEN other.next_id ELSE self.next_id,
         LAMBDA next_id :
    Record([self EXCEPT !.constraints = @ \o other.constraints,
                        !.next_id = next_id,
                        !.history = other.history],
           <<"counter", self.next_id, other.next_id, next_id>>))

with_substitution(ctx, substitution) ==
    [ctx EXCEPT !.environment = apply_substitution_env(@, substitution)]

RECURSIVE infer(_, _)

infer_with(ctx, name, scheme, ast) ==
    Bind(infer(create_closure(ctx, name, scheme), ast), LAMBDA result :
    Bind(sync(ctx, result.ctx), LAMBDA self :
    [result EXCEPT !.ctx =
        Record(self, <<"sync", ctx.constraints, result.ctx.constraints,
                       self.constraints>>)]))

\* The value of a let: inferred in a clone with no constraints, the
\* constraints solved there, the substitution applied to the environment of
\* the enclosing context, the type generalized in it, the clone synced back.
infer_let_value(ctx, name, value) ==
    Try(infer([ctx EXCEPT !.constraints = <<>>], value), LAMBDA value_type :
    Try(solve_constraints(value_type.ctx), LAMBDA substitution :
    Bind(with_substitution(ctx, substitution.val), LAMBDA self :
    Bind(generalize(apply_substitution(value_type.val, substitution.val),
                    self),
         LAMBDA scheme :
    Ok(Record(sync(self, substitution.ctx),
              <<"let", name, self.environment, scheme, substitution.val>>),
       scheme)))))

infer_variable(ctx, name) ==
    IF name \in DOMAIN ctx.environment
    THEN Bind(instantiate(ctx, ctx.environment[name]), LAMBDA result :
         Ok(Record(result.ctx,
                   <<"instantiate", name, ctx.environment[name], result.ty,
                     {result.ctx.history[i][2] :
                        i \in Len(ctx.history) + 1 .. Len(result.ctx.history)}>>),
            result.ty))
    ELSE Err(ctx, <<"NotInScope", name>>)

infer(ctx, expression) ==
    CASE expression[1] = "FloatLiteral" -> Ok(ctx, number)
      [] expression[1] = "StringLiteral" -> Ok(ctx, string)
      [] expression[1] = "Annotation" ->
            Try(infer(ctx, expression[2]), LAMBDA inferred :
            Ok(should_match(inferred.ctx, inferred.val, expression[3]),
               inferred.val))
      [] expression[1] = "If" ->
            Try(infer(ctx, expression[2]), LAMBDA type_condition :
            Try(infer(type_condition.ctx, expression[3]), LAMBDA type_right :
            Try(infer(type_right.ctx, expression[4]), LAMBDA type_left :
            Ok(should_unify(
                   should_unify(type_left.ctx, type_condition.val, boolean),
                   type_left.val, type_right.val),
               type_right.val))))
      [] expression[1] = "Variable" -> infer_variable(ctx, expression[2])
      [] expression[1] = "FunctionCall" ->
            Bind(fresh(ctx, NoKind), LAMBDA return_type :
            Try(infer(return_type.ctx, expression[2]), LAMBDA function_type :
            Try(infer(function_type.ctx, expression[3]), LAMBDA argument_type :
            Ok(should_unify(argument_type.ctx, function_type.val,
                   create_lambda(argument_type.val, return_type.ty)),
               return_type.ty))))
      [] expression[1] = "Lambda" ->
            Bind(fresh(ctx, NoKind), LAMBDA arg_type :
            Try(infer_with(arg_type.ctx, expression[2], arg_type.ty,
                           expression[3]),
                LAMBDA return_type :
            Ok(return_type.ctx, create_lambda(arg_type.ty, return_type.val))))
      [] expression[1] = "Let" ->
            Try(infer_let_value(ctx, expression[2], expression[3]),
                LAMBDA scheme :
            infer_with(scheme.ctx, expression[2], scheme.val, expression[4]))

get_type_of(expression) ==
    Try(infer(new_context, expression), LAMBDA resulting_type :
    Try(solve_constraints(resulting_type.ctx), LAMBDA subst :
    Ok(subst.ctx,
       generalize(apply_substitution(resulting_type.val, subst.val),
                  subst.ctx))))

-----------------------------------------------------------------------------
(* Bounded inputs *)

\* Number of type-variable names the input types draw from.
NumTypeVars == 2

\* Number of identifiers the input expressions draw from.
NumIdents == 2

\* Number of keys the input substitutions draw from.
NumSubstVars == 2

TypeVarPool == <<"a", "b", "c", "d">>

\* Identifiers of the form t0, t1 are ordinary identifiers of the language.
IdentPool == <<"x", "t0", "y", "t1">>

TypeVarNames == {TypeVarPool[i] : i \in 1..NumTypeVars}

Idents == {IdentPool[i] : i \in 1..NumIdents}

SubstKeys == {TypeVarPool[i] : i \in 1..NumSubstVars}

\* The atoms hold a variable of kind * and a variable spelled like the first
\* name that fresh produces.
TypeAtoms ==
    {NoKind, ArrowKind, number, string, Variable("a", star),
     from_string("t0")}
        \cup {from_string(n) : n \in TypeVarNames}

Types ==
    TypeAtoms
        \cup {TApply(f, x) : f \in TypeAtoms, x \in TypeAtoms}
        \cup {create_lambda(f, x) : f \in TypeAtoms, x \in TypeAtoms}

SubstValues ==
    {number, from_string("a"), from_string("b"),
     create_lambda(from_string("a"), number),
     Scheme(<<VarName("a", NoKind)>>, from_string("a"))}

\* The types bind_type_variable is tried on: the input types and a scheme
\* that quantifies one of its two variables.
BindTypes ==
    Types \cup {Scheme(<<VarName("a", NoKind)>>,
                       create_lambda(from_string("a"), from_string("b")))}

Substitutions ==
    UNION {[keys -> SubstValues] : keys \in SUBSET SubstKeys}

\* The values of the substitutions that are composed: a constant, a variable
\* that is itself a key, and a type that holds another key.
MergeValues ==
    {number, from_string("a"), create_lambda(from_string("b"), number)}

MergeSubstitutions ==
    UNION {[keys -> MergeValues] : keys \in SUBSET SubstKeys}

\* The types the composed substitutions are applied to: the atoms, and the
\* function types between atoms that a substitution can rewrite.
MergeCorpus ==
    TypeAtoms
        \cup {create_lambda(f, x) :
                f, x \in {ty \in TypeAtoms : Tag(ty) = "Variable"}}

AnnotationTypes ==
    {number, from_string("a"), from_string("Type"),
     create_lambda(number, number),
     Scheme(<<VarName("a", NoKind)>>,
            create_lambda(from_string("a"), from_string("a")))}

FloatLiteral == <<"FloatLiteral">>

StringLiteral == <<"StringLiteral">>

AstVariable(name) == <<"Variable", name>>

Annotation(annotated, annotation) == <<"Annotation", annotated, annotation>>

If(condition, right, left) == <<"If", condition, right, left>>

FunctionCall(function, argument) == <<"FunctionCall", function, argument>>

Lambda(argument, body) == <<"Lambda", argument, body>>

Let(name, value, body) == <<"Let", name, value, body>>

Leaves == {FloatLiteral, StringLiteral} \cup {AstVariable(i) : i \in Idents}

Calls == {FunctionCall(f, x) : f \in Leaves, x \in Leaves}

Lambdas == {Lambda(i, b) : i \in Idents, b \in Leaves}

Ifs == {If(c, t, e) : c \in Leaves, t \in Leaves, e \in Leaves}

Annotations == {Annotation(e, ty) : e \in Leaves, ty \in AnnotationTypes}

Lets ==
    {Let(i, v, b) : i \in Idents, v \in Leaves \cup Calls \cup Lambdas,
                    b \in Leaves \cup Calls}

\* A call that is applied to a lambda: the call has emitted its constraint
\* when the lambda opens its scope.
CallsOfLambdas == {FunctionCall(f, l) : f \in Calls, l \in Lambdas}

Expressions ==
    Leaves \cup Calls \cup Lambdas \cup Ifs \cup Annotations \cup Lets
        \cup {Lambda(i, b) : i \in Idents,
                b \in Calls \cup Lambdas \cup Ifs \cup Annotations \cup Lets}
        \cup {Annotation(e, ty) : e \in Lambdas, ty \in AnnotationTypes}
        \cup CallsOfLambdas
        \cup {Lambda(i, b) : i \in Idents, b \in CallsOfLambdas}

-----------------------------------------------------------------------------
(* The runs: one entry point per run, applied to inputs drawn in Init *)

Strip(result) ==
    IF result.ok THEN [ok |-> TRUE, val |-> result.val]
    ELSE [ok |-> FALSE, err |-> result.err]

NotYet == [ok |-> FALSE, err |-> <<"NotYet">>]

InitRun(name, orders, lefts, rights) ==
    /\ op = name
    /\ pc = "start"
    /\ hash_order \in orders
    /\ in_left \in lefts
    /\ in_right \in rights
    /\ context = new_context
    /\ solution = EmptySubstitution
    /\ outcome = NotYet

InitInfer == InitRun("get_type_of", BOOLEAN, Expressions, {NoKind})

\* unify, bind_type_variable and apply_substitution iterate over no hash set
\* of two elements: one order stands for both.
InitUnify == InitRun("unify", {TRUE}, Types, Types)

InitMatch == InitRun("match_types", BOOLEAN, Types, Types)

InitApply == InitRun("apply_substitution", {TRUE}, Types, Substitutions)

InitMerge ==
    InitRun("merge_substitutions", {TRUE}, MergeSubstitutions,
            MergeSubstitutions \X MergeSubstitutions)

InitBind ==
    InitRun("bind_type_variable", {TRUE},
            TypeVarNames \X {None, Some(NoKind), Some(star)}, BindTypes)

\* get_type_of, first statement: infer in a new context.
Infer ==
    /\ op = "get_type_of" /\ pc = "start"
    /\ LET resulting_type == infer(context, in_left)
       IN /\ context' = resulting_type.ctx
          /\ outcome' = Strip(resulting_type)
          /\ pc' = IF resulting_type.ok THEN "inferred" ELSE "failed"
    /\ UNCHANGED <<op, hash_order, in_left, in_right, solution>>

\* get_type_of, second statement: solve the constraints of the context.
Solve ==
    /\ op = "get_type_of" /\ pc = "inferred"
    /\ LET subst == solve_constraints(context)
       IN /\ context' = subst.ctx
          /\ solution' = IF subst.ok THEN subst.val ELSE solution
          /\ outcome' = IF subst.ok THEN outcome ELSE Strip(subst)
          /\ pc' = IF subst.ok THEN "solved" ELSE "failed"
    /\ UNCHANGED <<op, hash_order, in_left, in_right>>

\* get_type_of, the result: the type under the solution, generalized.
Generalize ==
    /\ op = "get_type_of" /\ pc = "solved"
    /\ outcome' = [ok |-> TRUE,
                   val |-> generalize(
                       apply_substitution(outcome.val, solution), context)]
    /\ pc' = "done"
    /\ UNCHANGED <<op, hash_order, in_left, in_right, context, solution>>

Unify ==
    /\ op = "unify" /\ pc = "start"
    /\ LET result == unify(context, in_left, in_right)
       IN context' = result.ctx /\ outcome' = Strip(result)
    /\ pc' = "done"
    /\ UNCHANGED <<op, hash_order, in_left, in_right, solution>>

Match ==
    /\ op = "match_types" /\ pc = "start"
    /\ LET result == match_types(context, in_left, in_right)
       IN context' = result.ctx /\ outcome' = Strip(result)
    /\ pc' = "done"
    /\ UNCHANGED <<op, hash_order, in_left, in_right, solution>>

Apply ==
    /\ op = "apply_substitution" /\ pc = "start"
    /\ outcome' = [ok |-> TRUE, val |-> apply_substitution(in_left, in_right)]
    /\ pc' = "done"
    /\ UNCHANGED <<op, hash_order, in_left, in_right, context, solution>>

BindTypeVariable ==
    /\ op = "bind_type_variable" /\ pc = "start"
    /\ LET result == bind_type_variable(context, in_left[1], in_left[2],
                                        in_right)
       IN context' = result.ctx /\ outcome' = Strip(result)
    /\ pc' = "done"
    /\ UNCHANGED <<op, hash_order, in_left, in_right, solution>>

\* merge_substitutions(s1, s2) and merge_substitutions(s2, s3), for
\* s1 = in_left and <<s2, s3>> = in_right.
MergeInner ==
    /\ op = "merge_substitutions" /\ pc = "start"
    /\ outcome' = [ok |-> TRUE,
                   val |-> merge_substitutions(in_left, in_right[1])]
    /\ solution' = merge_substitutions(in_right[1], in_right[2])
    /\ pc' = "merged"
    /\ UNCHANGED <<op, hash_order, in_left, in_right, context>>

\* merge_substitutions(merge_substitutions(s1, s2), s3) and
\* merge_substitutions(s1, merge_substitutions(s2, s3)).
MergeOuter ==
    /\ op = "merge_substitutions" /\ pc = "merged"
    /\ outcome' = [ok |-> TRUE,
                   val |-> merge_substitutions(outcome.val, in_right[2])]
    /\ solution' = merge_substitutions(in_left, solution)
    /\ pc' = "done"
    /\ UNCHANGED <<op, hash_order, in_left, in_right, context>>

NextInfer == Infer \/ Solve \/ Generalize

SpecInfer == InitInfer /\ [][NextInfer]_vars

SpecUnify == InitUnify /\ [][Unify]_vars

SpecMatch == InitMatch /\ [][Match]_vars

SpecApply == InitApply /\ [][Apply]_vars

SpecMerge == InitMerge /\ [][MergeInner \/ MergeOuter]_vars

InitOccurs == InitBind \/ InitInfer

NextOccurs == BindTypeVariable \/ Infer \/ Solve \/ Generalize

\* bind_type_variable on its own and inside get_type_of.
SpecOccurs == InitOccurs /\ [][NextOccurs]_vars

Init ==
    InitInfer \/ InitUnify \/ InitMatch \/ InitApply \/ InitBind \/ InitMerge

Next ==
    \/ Infer \/ Solve \/ Generalize \/ Unify \/ Match \/ Apply
    \/ BindTypeVariable \/ MergeInner \/ MergeOuter

Spec == Init /\ [][Next]_vars

-----------------------------------------------------------------------------
(* Vocabulary of the properties *)

Finished == pc \in {"done", "failed"}

Names(variables) == {v[1] : v \in variables}

QuantifierNames(scheme) == {scheme[2][i][1] : i \in 1..Len(scheme[2])}

FreeNames(ty) == Names(free_variables(ty))

EnvFreeNames(environment) ==
    UNION {FreeNames(environment[key]) : key \in DOMAIN environment}

\* The events of one kind recorded so far.
Events(kind) ==
    {i \in 1..Len(context.history) : context.history[i][1] = kind}

RECURSIVE RenameVars(_, _)
\* ty with every variable named in DOMAIN f renamed by f, kinds kept.
RenameVars(ty, f) ==
    CASE Tag(ty) = "Variable" ->
            IF ty[2] \in DOMAIN f THEN Variable(f[ty[2]], ty[3]) ELSE ty
      [] Tag(ty) = "TApply" ->
            TApply(RenameVars(ty[2], f), RenameVars(ty[3], f))
      [] OTHER -> ty

Injective(f) == \A x, y \in DOMAIN f : f[x] = f[y] => x = y

\* Two schemes equal up to a renaming of their quantified variables.
AlphaEq(s1, s2) ==
    /\ is_scheme(s1) /\ is_scheme(s2)
    /\ Len(s1[2]) = Len(s2[2])
    /\ \E f \in [QuantifierNames(s1) -> QuantifierNames(s2)] :
          /\ Injective(f)
          /\ {VarName(f[v[1]], v[2]) : v \in Range(s1[2])} = Range(s2[2])
          /\ RenameVars(s1[3], f) = s2[3]

RECURSIVE BoundIdents(_)
BoundIdents(e) ==
    CASE e[1] = "Lambda" -> {e[2]} \cup BoundIdents(e[3])
      [] e[1] = "Let" -> {e[2]} \cup BoundIdents(e[3]) \cup BoundIdents(e[4])
      [] e[1] = "If" ->
            BoundIdents(e[2]) \cup BoundIdents(e[3]) \cup BoundIdents(e[4])
      [] e[1] = "FunctionCall" -> BoundIdents(e[2]) \cup BoundIdents(e[3])
      [] e[1] = "Annotation" -> BoundIdents(e[2])
      [] OTHER -> {}

RECURSIVE AllIdents(_)
AllIdents(e) ==
    CASE e[1] = "Variable" -> {e[2]}
      [] e[1] = "Lambda" -> {e[2]} \cup AllIdents(e[3])
      [] e[1] = "Let" -> {e[2]} \cup AllIdents(e[3]) \cup AllIdents(e[4])
      [] e[1] = "If" -> AllIdents(e[2]) \cup AllIdents(e[3]) \cup AllIdents(e[4])
      [] e[1] = "FunctionCall" -> AllIdents(e[2]) \cup AllIdents(e[3])
      [] e[1] = "Annotation" -> AllIdents(e[2])
      [] OTHER -> {}

RECURSIVE Rename(_, _, _)
\* e with its binders, and the occurrences they bind, renamed by rho.
Rename(e, rho, bound) ==
    CASE e[1] = "Variable" ->
            IF e[2] \in bound THEN AstVariable(rho[e[2]]) ELSE e
      [] e[1] = "Lambda" ->
            Lambda(rho[e[2]], Rename(e[3], rho, bound \cup {e[2]}))
      [] e[1] = "Let" ->
            Let(rho[e[2]], Rename(e[3], rho, bound),
                Rename(e[4], rho, bound \cup {e[2]}))
      [] e[1] = "If" ->
            If(Rename(e[2], rho, bound), Rename(e[3], rho, bound),
               Rename(e[4], rho, bound))
      [] e[1] = "FunctionCall" ->
            FunctionCall(Rename(e[2], rho, bound), Rename(e[3], rho, bound))
      [] e[1] = "Annotation" -> Annotation(Rename(e[2], rho, bound), e[3])
      [] OTHER -> e

RenameTargets == Range(IdentPool)

\* The injective renamings of the bound identifiers of e to identifiers that
\* do not occur in e (so that no free identifier is captured).
Renamings(e) ==
    {rho \in [BoundIdents(e) -> RenameTargets \ AllIdents(e)] : Injective(rho)}

SameOutcome(r1, r2) ==
    IF r1.ok THEN r2.ok /\ AlphaEq(r1.val, r2.val)
    ELSE ~r2.ok /\ r1.err[1] = r2.err[1]

-----------------------------------------------------------------------------
(* Properties of get_type_of *)

\* C1: when a Let is inferred, the scheme bound to its name quantifies no
\* type variable that occurs free in the type of an entry of the enclosing
\* environment (taken after the substitution of the value was applied to it).
C1_LetSchemeQuantifiesNoEnvironmentVariable ==
    \A i \in Events("let") :
        QuantifierNames(context.history[i][4])
            \cap EnvFreeNames(context.history[i][3]) = {}

\* C2: get_type_of gives the same outcome (the same kind of error, or schemes
\* equal up to the names of their quantifiers) on an expression and on the
\* expression with its bound identifiers renamed injectively, identifiers of
\* the form t0, t1 included.
C2_RenamingBoundIdentifiersKeepsTheScheme ==
    Finished /\ op = "get_type_of" =>
        \A rho \in Renamings(in_left) :
            SameOutcome(outcome, get_type_of(Rename(in_left, rho, {})))

\* C3: a type get_type_of returns is closed: every type variable of its body
\* is one of its quantifiers.
C3_ResultIsClosed ==
    pc = "done" /\ op = "get_type_of" =>
        /\ is_scheme(outcome.val)
        /\ FreeNames(outcome.val[3]) \subseteq QuantifierNames(outcome.val)

-----------------------------------------------------------------------------
(* Properties of unify *)

RECURSIVE Subterms(_)
\* The types a type is built from by application, itself included.
Subterms(ty) ==
    IF Tag(ty) = "TApply"
    THEN {ty} \cup Subterms(ty[2]) \cup Subterms(ty[3])
    ELSE {ty}

\* apply(l, sigma) = apply(r, sigma) for the substitution unify returned.
Unifies ==
    apply_substitution(in_left, outcome.val)
        = apply_substitution(in_right, outcome.val)

UnifyReturned == op = "unify" /\ pc = "done" /\ outcome.ok

\* NoKind is no part of either type (it may still be the kind of a part).
NoKindIsNoPart == NoKind \notin Subterms(in_left) \cup Subterms(in_right)

\* Every variable name of the two types carries one kind.
OneKindPerName ==
    \A v, w \in free_variables(in_left) \cup free_variables(in_right) :
        v[1] = w[1] => v = w

-----------------------------------------------------------------------------
(* Properties of match_types *)

MatchReturned == op = "match_types" /\ pc = "done" /\ outcome.ok

\* The variable names that occur free in r and not in l.
RightOnlyNames == FreeNames(in_right) \ FreeNames(in_left)

\* C5: a substitution match_types(l, r) returns has no key that occurs free
\* in r and not in l, and match_types fails with MatchingError when r is a
\* Variable and l is a Constructor, an Apply or ArrowKind.
C5_MatchBindsOnlyLeftVariables ==
    /\ MatchReturned => DOMAIN outcome.val \cap RightOnlyNames = {}
    /\ op = "match_types" /\ pc = "done" /\ Tag(in_right) = "Variable"
            /\ Tag(in_left) \in {"Constructor", "TApply", "ArrowKind"} =>
        ~outcome.ok /\ outcome.err[1] = "MatchingError"

\* match_types has run on two different applications.
MatchedApplications ==
    /\ op = "match_types" /\ pc = "done"
    /\ Tag(in_left) = "TApply" /\ Tag(in_right) = "TApply"
    /\ in_left # in_right

\* The keys that the sub-match of the function parts and the sub-match of the
\* argument parts bind to unequal types, when both sub-matches succeed.
SubMatchConflicts(parts) ==
    IF parts.ok
    THEN {key \in DOMAIN parts.val.fun_subst \cap DOMAIN parts.val.input_subst :
            parts.val.fun_subst[key] # parts.val.input_subst[key]}
    ELSE {}

\* C6: when the sub-match of the function parts and the sub-match of the
\* argument parts of two applications both succeed and bind one variable to
\* unequal types, match_types returns the error SubstitutionConflict naming a
\* variable so bound and the two types, and no substitution.
C6_ConflictingSubMatchesAreAnError ==
    MatchedApplications =>
        LET parts == match_application_parts(new_context, in_left, in_right)
        IN SubMatchConflicts(parts) # {} =>
              /\ ~outcome.ok
              /\ outcome.err[1] = "SubstitutionConflict"
              /\ outcome.err[2] \in SubMatchConflicts(parts)
              /\ outcome.err[3] = parts.val.fun_subst[outcome.err[2]]
              /\ outcome.err[4] = parts.val.input_subst[outcome.err[2]]

\* a -> a is matched against Number -> String.
C6_Witness ==
    /\ MatchedApplications
    /\ "a" \in SubMatchConflicts(
                   match_application_parts(new_context, in_left, in_right))
    /\ in_left = create_lambda(from_string("a"), from_string("a"))
    /\ in_right = create_lambda(number, string)
    /\ outcome = [ok |-> FALSE,
                  err |-> <<"SubstitutionConflict", "a", number, string>>]

-----------------------------------------------------------------------------
(* The occurs check *)

\* bind_type_variable has run on a variable v and a type t that is not the
\* variable v and has v free.
BoundToTypeHoldingIt ==
    /\ op = "bind_type_variable" /\ pc = "done"
    /\ ~(Tag(in_right) = "Variable" /\ in_right[2] = in_left[1])
    /\ in_left[1] \in FreeNames(in_right)

\* get_type_of has finished on a lambda that applies its parameter to itself.
SelfApplicationInferred ==
    /\ op = "get_type_of" /\ Finished
    /\ \E x \in Idents :
          in_left = Lambda(x, FunctionCall(AstVariable(x), AstVariable(x)))

\* C7: binding a variable v to a type t that is not the variable v and has v
\* free fails with RecursiveType(v, t), with or without a kind for v; and
\* get_type_of fails with RecursiveType on Lambda(x, x x).
C7_OccursCheck ==
    /\ BoundToTypeHoldingIt =>
          outcome = [ok |-> FALSE,
                     err |-> <<"RecursiveType", in_left[1], in_right>>]
    /\ SelfApplicationInferred =>
          ~outcome.ok /\ outcome.err[1] = "RecursiveType"

\* get_type_of has failed on Lambda(x, x x) with the parameter's variable
\* bound to a function type that takes it.
C7_Witness ==
    /\ SelfApplicationInferred
    /\ pc = "failed"
    /\ outcome.err = <<"RecursiveType", "t0",
                       create_lambda(from_string("t0"), from_string("t1"))>>

-----------------------------------------------------------------------------
(* Conditionals *)

\* get_type_of has finished on a conditional under a lambda whose condition
\* is the lambda's parameter (so it unifies with Boolean), whose then-branch
\* is a Number and whose else-branch is a String.
NumberOrStringInferred ==
    /\ op = "get_type_of" /\ Finished
    /\ \E c \in Idents :
          in_left = Lambda(c, If(AstVariable(c), FloatLiteral, StringLiteral))

\* C8: for If(c, t, e) with c unifiable with Boolean, t a Number and e a
\* String, get_type_of fails with UnificationError(Number, String): the type
\* of the then-branch first, the type of the else-branch second.
C8_BranchMismatchNamesThenBranchFirst ==
    NumberOrStringInferred =>
        outcome = [ok |-> FALSE,
                   err |-> <<"UnificationError", number, string>>]

-----------------------------------------------------------------------------
(* Let-polymorphism *)

\* The occurrence recorded as event i got the type of its scheme with one
\* variable of its own per quantifier, and shares none with occurrence j.
InstantiatedApart(i, j) ==
    LET occurrence == context.history[i]
        scheme == occurrence[3]
    IN is_scheme(scheme) /\ scheme[2] # <<>> =>
          /\ \E f \in [QuantifierNames(scheme) -> occurrence[5]] :
                /\ Injective(f)
                /\ Range(f) = occurrence[5]
                /\ occurrence[4] = RenameVars(scheme[3], f)
          /\ i # j => occurrence[5] \cap context.history[j][5] = {}

\* get_type_of has finished on let id = \x. x in id id.
IdentityAppliedToItself ==
    /\ op = "get_type_of" /\ Finished
    /\ \E id, x \in Idents :
          in_left = Let(id, Lambda(x, AstVariable(x)),
                        FunctionCall(AstVariable(id), AstVariable(id)))

\* C9: every occurrence of an identifier whose scheme has quantifiers is
\* instantiated with fresh type variables that no other occurrence has, and
\* get_type_of(let id = \x. x in id id) is a scheme of one quantifier equal
\* to forall a. a -> a up to the quantifier's name.
C9_LetPolymorphism ==
    /\ \A i, j \in Events("instantiate") : InstantiatedApart(i, j)
    /\ IdentityAppliedToItself =>
          /\ outcome.ok
          /\ Len(outcome.val[2]) = 1
          /\ AlphaEq(outcome.val,
                     Scheme(<<VarName("a", NoKind)>>,
                            create_lambda(from_string("a"), from_string("a"))))

\* let id = \x. x in id id has its type, and the two occurrences of id were
\* instantiated from a scheme with a quantifier.
C9_Witness ==
    /\ IdentityAppliedToItself /\ pc = "done"
    /\ \E i, j \in Events("instantiate") :
          /\ i # j
          /\ context.history[i][3] = context.history[j][3]
          /\ is_scheme(context.history[i][3])
          /\ Len(context.history[i][3][2]) = 1
          /\ context.history[i][4] # context.history[j][4]

-----------------------------------------------------------------------------
(* Properties of apply_substitution *)

Applied == op = "apply_substitution" /\ pc = "done"

\* Applying the substitution again changes nothing.
AppliedTwiceIsAppliedOnce ==
    apply_substitution(outcome.val, in_right) = outcome.val

\* The substitution leaves each of its own values unchanged.
ValuesAreFixed(substitution) ==
    \A key \in DOMAIN substitution :
        apply_substitution(substitution[key], substitution) = substitution[key]

\* C10 as stated: for every substitution and every type, applying the
\* substitution twice gives what applying it once gives.
C10_ApplyIsIdempotent == Applied => AppliedTwiceIsAppliedOnce

\* C10, amended: for every substitution that leaves its own values unchanged
\* and every type, applying the substitution twice gives what applying it
\* once gives.
C10_ApplyIsIdempotentOnFixedValues ==
    Applied /\ ValuesAreFixed(in_right) => AppliedTwiceIsAppliedOnce

\* A substitution of two bindings that leaves its values unchanged has
\* rewritten both parts of an application.
C10_Witness ==
    /\ Applied /\ ValuesAreFixed(in_right)
    /\ Cardinality(DOMAIN in_right) = 2
    /\ Tag(in_left) = "TApply"
    /\ outcome.val[2] # in_left[2]
    /\ outcome.val[3] # in_left[3]

-----------------------------------------------------------------------------
(* Properties of merge_substitutions *)

\* merge_substitutions(s1, s2) has been computed into outcome.val.
Merged == op = "merge_substitutions" /\ pc = "merged"

\* The composed substitution binds the names of s1 and of s2, and a name of
\* one of them only as the claim says.
MergedWhereOnlyOneBinds ==
    /\ DOMAIN outcome.val = DOMAIN in_left \cup DOMAIN in_right[1]
    /\ \A key \in DOMAIN in_left \ DOMAIN in_right[1] :
          outcome.val[key] = in_left[key]
    /\ \A key \in DOMAIN in_right[1] \ DOMAIN in_left :
          outcome.val[key] = apply_substitution(in_right[1][key], in_left)

\* C11 as stated: merge_substitutions(s1, s2) has the entries of s2 with s1
\* applied to their types, united with s1, and a name bound in both gets the
\* type s1 gives it.
C11_MergeKeepsFirstOnConflict ==
    Merged =>
        /\ MergedWhereOnlyOneBinds
        /\ \A key \in DOMAIN in_left \cap DOMAIN in_right[1] :
              outcome.val[key] = in_left[key]

\* C11, amended: merge_substitutions(s1, s2) has the entries of s2 with s1
\* applied to their types, united with s1, and a name bound in both gets the
\* type s2 gives it, with s1 applied.
C11_MergeKeepsAppliedSecondOnConflict ==
    Merged =>
        /\ MergedWhereOnlyOneBinds
        /\ \A key \in DOMAIN in_left \cap DOMAIN in_right[1] :
              outcome.val[key] = apply_substitution(in_right[1][key], in_left)

\* Two substitutions that bind one name to different types were composed,
\* and applying s1 changed the type s2 gives the name.
C11_Witness ==
    /\ Merged
    /\ \E key \in DOMAIN in_left \cap DOMAIN in_right[1] :
          /\ outcome.val[key] # in_left[key]
          /\ outcome.val[key] # in_right[1][key]

\* C12: merge(merge(s1, s2), s3) and merge(s1, merge(s2, s3)) give the same
\* type when applied to a type of the corpus.
C12_MergeIsAssociativeUpToAction ==
    op = "merge_substitutions" /\ pc = "done" =>
        \A ty \in MergeCorpus :
            apply_substitution(ty, outcome.val)
                = apply_substitution(ty, solution)

\* Three substitutions were composed both ways, the two results are not the
\* same map of types as s3 alone, and they rewrite an application.
C12_Witness ==
    /\ op = "merge_substitutions" /\ pc = "done"
    /\ in_left # <<>> /\ in_right[1] # <<>> /\ in_right[2] # <<>>
    /\ DOMAIN in_left # DOMAIN in_right[1]
    /\ outcome.val # in_right[2]
    /\ \E ty \in MergeCorpus :
          /\ Tag(ty) = "TApply"
          /\ apply_substitution(ty, outcome.val) # ty
          /\ apply_substitution(ty, outcome.val)
                # apply_substitution(ty, in_right[2])

-----------------------------------------------------------------------------
(* Child contexts *)

\* What the child of the sync recorded as event i emitted: its constraints
\* after those it was created with.
EmittedByChild(i) ==
    SubSeq(context.history[i][3], Len(context.history[i][2]) + 1,
           Len(context.history[i][3]))

\* C13: when the child context of a local scope is synced, the constraints
\* of the parent are those it had before the call followed by those the
\* child emitted, in emission order and each once.
C13_SyncAppendsWhatTheChildEmitted ==
    \A i \in Events("sync") :
        context.history[i][4] = context.history[i][2] \o EmittedByChild(i)

-----------------------------------------------------------------------------
(* The fresh counter *)

\* No call of fresh and no sync has lowered the counter of its context, and
\* fresh named its variable after the counter it found.
CounterNeverDecreased ==
    /\ \A i \in Events("fresh") :
          /\ context.history[i][4] > context.history[i][3]
          /\ context.history[i][2] = "t" \o ToString(context.history[i][3])
    /\ \A i \in Events("counter") :
          /\ context.history[i][4] >= context.history[i][2]
          /\ context.history[i][4] >= context.history[i][3]

\* C14: during one get_type_of run, over the root context and its child
\* contexts, inference and constraint solving, no call of fresh and no sync
\* lowers the counter of a context, and no two calls of fresh return
\* variables of the same name.
C14_FreshNamesAreFresh ==
    op = "get_type_of" =>
        /\ CounterNeverDecreased
        /\ \A i, j \in Events("fresh") :
              i # j => context.history[i][2] # context.history[j][2]
        /\ context.next_id = Cardinality(Events("fresh"))

\* A run has finished in which a child context advanced the counter beyond
\* that of its parent, the parent called fresh after the sync, and solving
\* called fresh after inference.
C14_Witness ==
    /\ op = "get_type_of" /\ pc = "done"
    /\ \E i \in Events("counter"), j \in Events("fresh") :
          /\ context.history[i][3] > context.history[i][2]
          /\ j > i
    /\ context.next_id > infer(new_context, in_left).ctx.next_id

-----------------------------------------------------------------------------
(* Bindings of a let value *)

\* get_type_of has returned the type of a lambda whose body is a let.
LetUnderLambdaTyped ==
    /\ op = "get_type_of" /\ pc = "done"
    /\ in_left[1] = "Lambda" /\ in_left[3][1] = "Let"

\* The type of the parameter in the type get_type_of returned for a lambda.
ParameterType == outcome.val[3][2][3]

\* C15: when solving the constraints of a let value binds the type variable
\* of the enclosing lambda's parameter (t0, the first fresh variable), the
\* type get_type_of returns has the binding applied to the parameter's type;
\* for Lambda(x, Let(y, x 1.0, x)) the parameter's type is a function type
\* from Number.
C15_LetValueBindingsReachTheParameter ==
    LetUnderLambdaTyped =>
        \A i \in Events("let") :
            "t0" \in DOMAIN context.history[i][5] =>
                ParameterType
                    = apply_substitution(context.history[i][5]["t0"], solution)

=============================================================================
